---------------------------- MODULE Spec2Model ----------------------------
(***************************************************************************)
(* A model of nautilus_tartex.py: the Nautilus menu provider that runs the *)
(* external tartex tool on a selected LaTeX file and reports the outcome   *)
(* through a desktop notification, the recent-files list and an error      *)
(* dialog.                                                                 *)
(*                                                                         *)
(* Everything runs on the GLib main loop of the file manager: a handler    *)
(* (menu activation, subprocess completion, a timeout or idle callback)    *)
(* runs to its end before the next one starts, so each handler is one      *)
(* action.  The subprocess, the wall clock, the PATH, the desktop's        *)
(* accent-colour support and the application window are the environment.   *)
(*                                                                         *)
(* Text is modelled by TLA+ strings; a text that the code splits into      *)
(* lines and words (the stdout of tartex, the success message) is a        *)
(* sequence of lines, each a sequence of words.  The emoji that open the   *)
(* notification bodies are left out of the strings.                        *)
(***************************************************************************)
EXTENDS Integers, Sequences, FiniteSets, TLC

(***************************************************************************)
(* Bounds of the model.                                                    *)
(***************************************************************************)
\* Number of menu activations in one behaviour.
MaxActs == 2
\* The wall clock runs from 0 to MaxClock ticks.
MaxClock == 2
\* Clock ticks in one second: the clock is finer than the %S of strftime.
TicksPerSecond == 2
\* Length of the longest selection handed to get_file_items.
MaxSel == 2

(***************************************************************************)
(* Python and GLib values.                                                 *)
(***************************************************************************)
None == "None"

\* str.endswith(suffix)
endswith(s, suffix) ==
    /\ Len(s) >= Len(suffix)
    /\ SubSeq(s, Len(s) - Len(suffix) + 1, Len(s)) = suffix

\* str.rfind("."), 1-based; 0 when there is no dot
rfind_dot(s) ==
    LET dots == {i \in 1..Len(s) : SubSeq(s, i, i) = "."}
    IN  IF dots = {} THEN 0 ELSE CHOOSE i \in dots : \A j \in dots : j <= i

\* os.path.splitext(p)[0] of a name without directory separators: the
\* extension starts at the last dot, unless only dots precede that dot.
splitext_root(p) ==
    LET d == rfind_dot(p)
    IN  IF d > 0 /\ \E i \in 1..(d - 1) : SubSeq(p, i, i) # "."
        THEN SubSeq(p, 1, d - 1)
        ELSE p

\* GLib.build_filenamev([a, b]) for a without trailing and b without
\* leading separator
build_filenamev(a, b) == a \o "/" \o b

\* GLib.filename_to_uri / Nautilus.FileInfo.get_uri of a local path whose
\* characters need no escaping
filename_to_uri(path) == "file://" \o path

\* " ".join(words)
RECURSIVE join_words(_)
join_words(ws) ==
    IF ws = <<>> THEN ""
    ELSE IF Len(ws) = 1 THEN ws[1]
    ELSE ws[1] \o " " \o join_words(Tail(ws))

\* datetime.now().strftime("%Y%m%d_%H%M%S") at clock tick t: the stamp has
\* the resolution of one second.
strftime(t) == "20250101_12000" \o ToString(t \div TicksPerSecond)

(***************************************************************************)
(* Nautilus.FileInfo objects.                                              *)
(***************************************************************************)
FileInfo(dir, name, isdir) == [dir |-> dir, name |-> name, is_directory |-> isdir]

get_name(file_obj) == file_obj.name
is_directory(file_obj) == file_obj.is_directory
\* file_obj.get_parent_location().get_path()
get_parent_path(file_obj) == file_obj.dir
\* file_obj.get_location().get_path()
get_path(file_obj) == build_filenamev(file_obj.dir, file_obj.name)
get_uri(file_obj) == filename_to_uri(get_path(file_obj))

\* The directories of the model that hold a ".git" directory.
GitDirs == {"/p2"}
\* (Path(parent) / ".git").is_dir()
has_git_dir(dir) == dir \in GitDirs

\* The objects a selection is drawn from.
SelNames == {"paper.v2.tex", "main.fls", "notes.txt", "main.tex.bak", "tex", ".fls"}
SelObjects ==
    {FileInfo("/p1", n, d) : n \in SelNames, d \in BOOLEAN} \cup
    {FileInfo("/p2", "main.fls", FALSE)}

\* The files the menu item is activated on.
ProjectFiles ==
    {FileInfo("/p1", "paper.v2.tex", FALSE), FileInfo("/p2", "main.fls", FALSE)}

VARIABLES
    clock,      \* wall clock, in ticks, when it was last read
    cwd,        \* working directory of the file manager's process
    acts,       \* one record per call of on_tartex_activate, in call order
    pending,    \* GLib sources scheduled by timeout_add / idle_add, in order
    marks,      \* calls of app.mark_busy()
    unmarks,    \* calls of app.unmark_busy()
    items,      \* the last selection handed to get_file_items
    menu        \* the list the last menu query returned

vars == <<clock, cwd, acts, pending, marks, unmarks, items, menu>>


(***************************************************************************)
(* The desktop the extension runs on, read by the handlers when they run.  *)
(***************************************************************************)
\* Gtk.Application.get_default(): the application, or None.
Apps == {None, "app"}
\* app.get_active_window(): the window the menu was opened in.
Window == "win"
\* parent_window.get_default_size(): (0, 0) when no default size was set.
WinSizes == {<<0, 0>>, <<1200, 900>>}
\* shutil.which("tartex")
TartexPaths == {None, "/usr/bin/tartex"}

\* Gio.SubprocessLauncher.spawnv(cmd): the subprocess starts, or the launch
\* raises GLib.Error, or something else is raised.
SpawnOutcomes == {"spawned", "GLib.Error", "Exception"}

\* proc.get_exit_status() of a finished tartex
ExitCodes == {0, 1, 4, 6}

(***************************************************************************)
(* Menu provider.                                                          *)
(***************************************************************************)
\* Nautilus.MenuItem(...) connected to on_tartex_activate for file_obj
MenuItem(file_obj) ==
    [name |-> "TartexNautilusExtension::CreateTarball",
     label |-> "Create TarTeX Archive",
     activate |-> [handler |-> "on_tartex_activate", file_obj |-> file_obj]]

\* get_file_items without the is_directory() test
get_file_items_any_type(its) ==
    IF Len(its) # 1 THEN <<>>
    ELSE LET file_obj == its[1]
         IN  IF \/ endswith(get_name(file_obj), ".tex")
                \/ endswith(get_name(file_obj), ".fls")
             THEN <<MenuItem(file_obj)>>
             ELSE <<>>

get_file_items(its) ==
    IF Len(its) # 1 THEN <<>>
    ELSE LET file_obj == its[1]
         IN  IF /\ ~is_directory(file_obj)
                /\ \/ endswith(get_name(file_obj), ".tex")
                   \/ endswith(get_name(file_obj), ".fls")
             THEN <<MenuItem(file_obj)>>
             ELSE <<>>

get_background_items(current_folder) == <<>>

(***************************************************************************)
(* Notifications.                                                          *)
(***************************************************************************)
StartedMsg == "Archive creation started (running in background)"

\* Notify.Notification.new("TarTeX", ...); set_urgency(CRITICAL); show()
new_notification ==
    [head |-> "TarTeX", msg |-> StartedMsg, urgency |-> "CRITICAL",
     timeout |-> "EXPIRES_DEFAULT", shows |-> 1]

\* _notify_send(head, msg, n), as the new value of notification n
notify_send(head, msg, n) ==
    [n EXCEPT !.head = head, !.msg = msg, !.urgency = "NORMAL",
              !.timeout = "EXPIRES_DEFAULT", !.shows = @ + 1]

(***************************************************************************)
(* GLib sources.  timeout_add(0, f, *args) attaches a source of priority   *)
(* DEFAULT, idle_add(f, *args) one of priority DEFAULT_IDLE; the main loop *)
(* dispatches the ready sources of the best priority in the order they     *)
(* were attached, and removes a source whose callback returns a false      *)
(* value or raises.  "act" records the activation a source belongs to.     *)
(***************************************************************************)
timeout_add(act, fn, args) == [kind |-> "timeout", act |-> act, fn |-> fn, args |-> args]
idle_add(act, fn, args) == [kind |-> "idle", act |-> act, fn |-> fn, args |-> args]

\* index in pending of the source the main loop dispatches next
next_source ==
    LET timeouts == {k \in 1..Len(pending) : pending[k].kind = "timeout"}
    IN  IF timeouts # {}
        THEN CHOOSE k \in timeouts : \A j \in timeouts : k <= j
        ELSE 1

remove_source(k) ==
    [j \in 1..(Len(pending) - 1) |-> IF j < k THEN pending[j] ELSE pending[j + 1]]

(***************************************************************************)
(* _run_tartex_process: the command line.                                  *)
(***************************************************************************)
output_name(file_obj, t) ==
    build_filenamev(
        get_parent_path(file_obj),
        splitext_root(get_name(file_obj)) \o "_" \o strftime(t) \o ".tar.gz")

\* build_cmd with the time-stamped --output added after the git options too
build_cmd_output_twice(tartex_path, file_obj, t) ==
    <<tartex_path, get_path(file_obj), "-b", "-v", "-s">> \o
    (IF has_git_dir(get_parent_path(file_obj))
     THEN <<"--overwrite", "--git-rev", "--output", get_parent_path(file_obj)>>
     ELSE <<>>) \o
    <<"--output", output_name(file_obj, t)>>

build_cmd(tartex_path, file_obj, t) ==
    <<tartex_path, get_path(file_obj), "-b", "-v", "-s">> \o
    IF has_git_dir(get_parent_path(file_obj))
    THEN <<"--overwrite", "--git-rev", "--output", get_parent_path(file_obj)>>
    ELSE <<"--output", output_name(file_obj, t)>>

(***************************************************************************)
(* The record of one activation.                                           *)
(*   stage      where the activation stands:                               *)
(*                "unbound_win"    on_tartex_activate raised (line 115)    *)
(*                "not_found"      tartex is not in PATH                   *)
(*                "launch_failed"  spawnv raised                           *)
(*                "running"        tartex runs, the callback is awaited    *)
(*                "failed"         _on_tartex_complete saw exit code # 0   *)
(*                "succeeded"      _on_tartex_complete saw exit code 0     *)
(*   exit_code  -1 until the subprocess has exited                         *)
(*   scheduled  every source the activation attached, in order (history)   *)
(*   archive    the name of the archive tartex wrote (environment)         *)
(***************************************************************************)
NoDialog ==
    [state |-> "none", error |-> None, text |-> <<>>, summary |-> None,
     summary_in_dialog |-> FALSE, log_path |-> None]

new_act(file_obj, app) ==
    [file |-> file_obj, app |-> app, win |-> IF app # None THEN Window ELSE None,
     stage |-> "unbound_win", cmd |-> <<>>,
     notif |-> new_notification, exit_code |-> -1, stdout |-> <<>>,
     archive |-> None, scheduled |-> <<>>, dialog |-> NoDialog,
     recent |-> <<>>]

Init ==
    /\ clock = 0
    /\ cwd = "/"
    /\ acts = <<>>
    /\ pending = <<>>
    /\ marks = 0
    /\ unmarks = 0
    /\ items = <<>>
    /\ menu = [query |-> "none", result |-> <<>>]

(***************************************************************************)
(* on_tartex_activate and, called from it, _run_tartex_process.            *)
(***************************************************************************)
\* The sources _run_tartex_process attaches when spawnv raises: the two
\* except clauses pass head and message to _notify_send, but no notification.
launch_failure_sources(act, outcome) ==
    IF outcome = "GLib.Error"
    THEN <<timeout_add(act, "_notify_send",
                       <<"TarTeX Error", "Failed to launch command: GLib.Error">>)>>
    ELSE <<timeout_add(act, "_notify_send",
                       <<"TarTeX Error", "An unknown error occurred: Exception">>)>>

on_tartex_activate(file_obj, app, tartex_path, outcome, now) ==
    LET a == new_act(file_obj, app)
        i == Len(acts) + 1
    IN  IF app = None
        THEN \* "win" is only bound under "if app": line 115 raises
             \* UnboundLocalError after the notification was shown
             /\ acts' = Append(acts, a)
             /\ UNCHANGED <<cwd, pending, marks>>
        ELSE /\ marks' = marks + 1
             /\ cwd' = get_parent_path(file_obj)
             /\ IF tartex_path = None
                THEN /\ acts' = Append(acts,
                          [a EXCEPT !.stage = "not_found",
                                    !.notif = notify_send("Error",
                                        "tartex command not found in PATH", @)])
                     /\ UNCHANGED pending
                ELSE LET cmd == build_cmd(tartex_path, file_obj, now)
                     IN  IF outcome = "spawned"
                         THEN /\ acts' = Append(acts,
                                   [a EXCEPT !.stage = "running", !.cmd = cmd])
                              /\ UNCHANGED pending
                         ELSE LET srcs == launch_failure_sources(i, outcome)
                              IN  /\ acts' = Append(acts,
                                       [a EXCEPT !.stage = "launch_failed",
                                                 !.cmd = cmd,
                                                 !.scheduled = srcs])
                                  /\ pending' = pending \o srcs

\* The user picks the menu item that get_file_items offers for file_obj.
\* Only an activation reads the wall clock: "now" is the time it reads, not
\* earlier than the time the previous activation read.
Activate ==
    \E file_obj \in ProjectFiles, app \in Apps, tartex_path \in TartexPaths,
       outcome \in SpawnOutcomes, now \in clock..MaxClock :
        /\ Len(acts) < MaxActs
        /\ get_file_items(<<file_obj>>) # <<>>
        /\ clock' = now
        /\ on_tartex_activate(file_obj, app, tartex_path, outcome, now)
        /\ UNCHANGED <<unmarks, items, menu>>

(***************************************************************************)
(* The tartex subprocess (environment).  With "-s" it ends its stdout with *)
(* a line "Summary: Archive <name> generated with <n> files."; at COLUMNS  *)
(* = 132 a long line wraps onto the next one.  A run may also print no     *)
(* summary at all.                                                         *)
(***************************************************************************)
\* The last component of a path: the text after its last "/".
basename(path) ==
    LET seps == {i \in 1..Len(path) : SubSeq(path, i, i) = "/"}
        last == IF seps = {} THEN 0 ELSE CHOOSE i \in seps : \A j \in seps : j <= i
    IN  SubSeq(path, last + 1, Len(path))

\* The archive a successful run of cmd writes: the file named by --output,
\* or, given a directory (--git-rev), a name tartex derives from the revision.
tartex_archive(cmd, file_obj) ==
    IF cmd[6] = "--output"
    THEN basename(cmd[7])
    ELSE splitext_root(get_name(file_obj)) \o "-g1a2b3c.tar.gz"

TartexStdouts(archive) ==
    { << <<"INFO", "Compiling">>,
         <<"Summary:", "Archive", archive, "generated", "with", "5", "files.">> >>,
      << <<"INFO", "Compiling">>,
         <<"Summary:", "Archive", archive, "generated", "with">>,
         <<"5", "files.">> >>,
      << <<"INFO", "Compiling">> >> }

TartexErrorStdouts ==
    { << <<"INFO", "Compiling">>, <<"ERROR", "tartex", "failed">> >> }

(***************************************************************************)
(* _on_tartex_complete.                                                    *)
(***************************************************************************)
\* re.compile(r"^Summary:\s(.*)$", re.MULTILINE).search(stdout): the index
\* of the first line that starts with "Summary:", 0 without a match.
re_summary_search(stdout) ==
    LET hits == {k \in 1..Len(stdout) :
                    stdout[k] # <<>> /\ stdout[k][1] = "Summary:"}
    IN  IF hits = {} THEN 0 ELSE CHOOSE k \in hits : \A j \in hits : k <= j

\* success_msg of lines 230-240, as its words.  <<>> stands for the empty
\* string, on which success_msg[-1] raises IndexError.
success_msg(stdout, file_obj) ==
    LET m == re_summary_search(stdout)
    IN  IF m = 0
        THEN <<"Created", "TarTeX", "archive", "using", get_name(file_obj)>>
        ELSE LET group1 == Tail(stdout[m])
             IN  IF group1 = <<>> THEN <<>>
                 ELSE IF endswith(group1[Len(group1)], ".") THEN group1
                 ELSE group1 \o stdout[Len(stdout)]

\* complete_sources with the success path also opening the error dialog
complete_sources_dialog_always(i, file_obj, win, exit_code, stdout) ==
    LET msg == success_msg(stdout, file_obj)
    IN  IF exit_code # 0
        THEN << timeout_add(i, "_notify_send",
                    <<"TarTeX Error",
                      "Failed to create archive using " \o get_name(file_obj), i>>),
                timeout_add(i, "_show_error_dialog",
                    <<win, file_obj, Append(stdout, <<>>), exit_code>>) >>
        ELSE << timeout_add(i, "_notify_send",
                    <<"TarTeX Success", join_words(msg), i>>),
                timeout_add(i, "_show_error_dialog",
                    <<win, file_obj, Append(stdout, <<>>), exit_code>>),
                idle_add(i, "_update_recent",
                    << <<get_uri(file_obj),
                         filename_to_uri(build_filenamev(
                             get_parent_path(file_obj), msg[2]))>> >>) >>

\* The sources _on_tartex_complete attaches for activation i, in order.
complete_sources(i, file_obj, win, exit_code, stdout) ==
    IF exit_code # 0
    THEN << timeout_add(i, "_notify_send",
                <<"TarTeX Error",
                  "Failed to create archive using " \o get_name(file_obj), i>>),
            timeout_add(i, "_show_error_dialog",
                <<win, file_obj, Append(stdout, <<>>), exit_code>>) >>
    ELSE LET msg == success_msg(stdout, file_obj)
         IN  IF msg = <<>> THEN <<>>            \* IndexError at line 235
             ELSE << timeout_add(i, "_notify_send",
                         <<"TarTeX Success", join_words(msg), i>>) >> \o
                  IF Len(msg) < 2 THEN <<>>     \* IndexError at line 247
                  ELSE << idle_add(i, "_update_recent",
                              << <<get_uri(file_obj),
                                   filename_to_uri(build_filenamev(
                                       get_parent_path(file_obj), msg[2]))>> >>) >>

OnTartexComplete ==
    \E i \in 1..Len(acts), exit_code \in ExitCodes :
        /\ acts[i].stage = "running"
        /\ LET a == acts[i]
               archive == IF exit_code = 0
                          THEN tartex_archive(a.cmd, a.file) ELSE None
           IN  \E stdout \in IF exit_code = 0 THEN TartexStdouts(archive)
                                              ELSE TartexErrorStdouts :
                   LET srcs == complete_sources(i, a.file, a.win, exit_code, stdout)
                   IN  /\ unmarks' = IF a.app # None THEN unmarks + 1 ELSE unmarks
                       /\ acts' = [acts EXCEPT ![i] =
                              [a EXCEPT !.stage = IF exit_code # 0 THEN "failed"
                                                  ELSE "succeeded",
                                        !.exit_code = exit_code,
                                        !.stdout = stdout,
                                        !.archive = archive,
                                        !.scheduled = @ \o srcs]]
                       /\ pending' = pending \o srcs
        /\ UNCHANGED <<clock, cwd, marks, items, menu>>

(***************************************************************************)
(* The callbacks the main loop dispatches.                                 *)
(***************************************************************************)
\* A _notify_send source: with head, message and notification it replaces
\* the notification; with fewer arguments the call raises TypeError.
DispatchNotifySend ==
    /\ pending # <<>>
    /\ pending[next_source].fn = "_notify_send"
    /\ LET args == pending[next_source].args
       IN  IF Len(args) = 3
           THEN acts' = [acts EXCEPT ![args[3]].notif =
                            notify_send(args[1], args[2], @)]
           ELSE UNCHANGED acts
    /\ pending' = remove_source(next_source)
    /\ UNCHANGED <<clock, cwd, marks, unmarks, items, menu>>

err_dict ==
    (1 :> "unknown error") @@ (2 :> "cache access") @@ (3 :> "git checkout") @@
    (4 :> "LaTeX compilation") @@ (5 :> "tarball creation")

Min(a, b) == IF a < b THEN a ELSE b

raised(exception) == [NoDialog EXCEPT !.state = "raised", !.error = exception]

\* _show_error_dialog(parent_window, dir_path, error_details, exit_code), as
\* the dialog it leaves behind.  dir_path is never read.  default_size is
\* what parent_window.get_default_size() returns and accent what
\* get_system_supports_accent_colors() returns during the call.
show_error_dialog(parent_window, dir_path, error_details, exit_code, default_size, accent) ==
    IF parent_window = None
    THEN raised("AttributeError")        \* None.get_default_size(), line 284
    ELSE LET win_width == IF default_size[1] = 0 THEN 600 ELSE default_size[1]
             win_height == IF default_size[2] = 0 THEN 400 ELSE default_size[2]
             size_padding == 200
             box_size_min == <<Min(win_width - size_padding - 1, 900),
                               Min(win_height - size_padding - 1, 800)>>
             size_limit == <<500, 400>>
         IN  IF exit_code \notin DOMAIN err_dict
             THEN raised("KeyError")     \* err_dict[exit_code], line 347
             ELSE IF ~accent
             THEN raised("UnboundLocalError")   \* acc_color, line 440
             ELSE [state |-> "presented",
                   error |-> None,
                   text |-> error_details,
                   summary |-> "TarTeX failed at " \o err_dict[exit_code],
                   summary_in_dialog |-> /\ box_size_min[2] > size_limit[2]
                                         /\ box_size_min[1] > size_limit[1],
                   log_path |-> IF exit_code = 4
                                THEN build_filenamev(cwd, "tartex_compile_error.log")
                                ELSE None]

DispatchShowErrorDialog ==
    \E default_size \in WinSizes, accent \in BOOLEAN :
        /\ pending # <<>>
        /\ pending[next_source].fn = "_show_error_dialog"
        /\ LET src == pending[next_source]
           IN  acts' = [acts EXCEPT ![src.act].dialog =
                           show_error_dialog(src.args[1], src.args[2], src.args[3],
                                             src.args[4], default_size, accent)]
        /\ pending' = remove_source(next_source)
        /\ UNCHANGED <<clock, cwd, marks, unmarks, items, menu>>

\* _update_recent(files): rec_man.add_item for each uri, in order
update_recent(recent, files) == recent \o files

DispatchUpdateRecent ==
    /\ pending # <<>>
    /\ pending[next_source].fn = "_update_recent"
    /\ LET src == pending[next_source]
       IN  acts' = [acts EXCEPT ![src.act].recent = update_recent(@, src.args[1])]
    /\ pending' = remove_source(next_source)
    /\ UNCHANGED <<clock, cwd, marks, unmarks, items, menu>>

(***************************************************************************)
(* Menu queries of the file manager.                                       *)
(***************************************************************************)
Selections == UNION {[1..n -> SelObjects] : n \in 0..MaxSel}

GetFileItems ==
    \E its \in Selections :
        /\ items' = its
        /\ menu' = [query |-> "get_file_items", result |-> get_file_items(its)]
        /\ UNCHANGED <<clock, cwd, acts, pending, marks, unmarks>>

GetBackgroundItems ==
    \E current_folder \in SelObjects :
        /\ items' = <<current_folder>>
        /\ menu' = [query |-> "get_background_items",
                    result |-> get_background_items(current_folder)]
        /\ UNCHANGED <<clock, cwd, acts, pending, marks, unmarks>>

(***************************************************************************)
(* Specifications.                                                         *)
(***************************************************************************)
Next ==
    \/ Activate
    \/ OnTartexComplete
    \/ DispatchNotifySend
    \/ DispatchShowErrorDialog
    \/ DispatchUpdateRecent

Spec == Init /\ [][Next]_vars

NextMenu ==
    \/ GetFileItems
    \/ GetBackgroundItems

SpecMenu == Init /\ [][NextMenu]_vars

(***************************************************************************)
(* Properties.                                                             *)
(***************************************************************************)
Acts == 1..Len(acts)

\* Activation i has nothing left to run: its subprocess is not awaited and
\* none of its sources is pending.
finished(i) ==
    /\ acts[i].stage # "running"
    /\ \A k \in 1..Len(pending) : pending[k].act # i

\* The notification is no longer the "started" one: _notify_send replaced it.
final_notification(n) ==
    /\ <<n.head, n.msg>> # <<"TarTeX", StartedMsg>>
    /\ n.urgency = "NORMAL"
    /\ n.timeout = "EXPIRES_DEFAULT"
    /\ n.shows = 2

fns(sources) == [k \in 1..Len(sources) |-> sources[k].fn]

\* C1: an activation that ended in one of the four outcomes (tartex not in
\* PATH, launch failure, non-zero exit, zero exit) and has nothing left to
\* run has had its "started" notification replaced by a final one of
\* urgency NORMAL and default timeout.
C1_FinalNotification ==
    \A i \in Acts :
        ( /\ acts[i].stage \in {"not_found", "launch_failed", "failed", "succeeded"}
          /\ finished(i) )
        => final_notification(acts[i].notif)

\* C2: once _on_tartex_complete has run for an activation, the sources it
\* attached are, for a non-zero exit code, exactly the "TarTeX Error"
\* notification and the error dialog with the stdout and the exit code, and,
\* for exit code zero, exactly the "TarTeX Success" notification and the
\* recent-files update.
C2_ExitCodeMarshalling ==
    \A i \in Acts :
        LET a == acts[i]
        IN  a.exit_code # -1 =>
                IF a.exit_code # 0
                THEN /\ fns(a.scheduled) = <<"_notify_send", "_show_error_dialog">>
                     /\ a.scheduled[1].args[1] = "TarTeX Error"
                     /\ a.scheduled[1].args[3] = i
                     /\ SubSeq(a.scheduled[2].args[3], 1, Len(a.stdout)) = a.stdout
                     /\ a.scheduled[2].args[4] = a.exit_code
                ELSE /\ fns(a.scheduled) = <<"_notify_send", "_update_recent">>
                     /\ a.scheduled[1].args[1] = "TarTeX Success"
                     /\ a.scheduled[1].args[3] = i

\* C2 witness: one run has failed and another has succeeded.
C2_Witness ==
    \E i, j \in Acts : acts[i].stage = "failed" /\ acts[j].stage = "succeeded"

\* C3: whenever _show_error_dialog has run for a failed run, whatever the
\* non-zero exit code, it has presented a dialog that holds the error
\* details it was given and a summary label naming the failure stage.  (A
\* call that stopped at the accent colour of line 440 is set aside: that
\* failure does not depend on the exit code.)
C3_DialogPresented ==
    \A i \in Acts :
        LET a == acts[i]
        IN  ( /\ a.stage = "failed"
              /\ a.dialog.state # "none"
              /\ a.dialog.error # "UnboundLocalError" ) =>
                /\ a.dialog.state = "presented"
                /\ a.dialog.text = a.scheduled[2].args[3]
                /\ a.dialog.summary # None

\* The names of the selectable objects that end with ".tex" or ".fls".
LatexNames == {"paper.v2.tex", "main.fls", ".fls"}

\* C4: get_file_items returns the one item "Create TarTeX Archive",
\* connected to on_tartex_activate for the selected file, exactly when one
\* object is selected that is no directory and whose name ends with ".tex"
\* or ".fls", and the empty list otherwise; get_background_items returns
\* the empty list.
C4_MenuItems ==
    /\ menu.query = "get_file_items" =>
        IF /\ Len(items) = 1
           /\ ~items[1].is_directory
           /\ items[1].name \in LatexNames
        THEN /\ Len(menu.result) = 1
             /\ menu.result[1].label = "Create TarTeX Archive"
             /\ menu.result[1].activate =
                    [handler |-> "on_tartex_activate", file_obj |-> items[1]]
        ELSE menu.result = <<>>
    /\ menu.query = "get_background_items" => menu.result = <<>>

\* C4 witness: a selection of one LaTeX file got the menu item.
C4_Witness ==
    /\ menu.query = "get_file_items"
    /\ Len(items) = 1
    /\ menu.result # <<>>

\* The file name stems of the project files.
Stem(name) == IF name = "paper.v2.tex" THEN "paper.v2" ELSE "main"

\* C5: a command line that _run_tartex_process built starts with the tartex
\* path, the file path, -b, -v, -s and holds one --output; in a directory
\* with .git the rest is --overwrite --git-rev --output <parent>, otherwise
\* it is --output <parent>/<stem>_<timestamp>.tar.gz.
C5_CommandLine ==
    \A i \in Acts :
        LET cmd == acts[i].cmd
            f == acts[i].file
        IN  cmd # <<>> =>
                /\ SubSeq(cmd, 1, 5) =
                       <<"/usr/bin/tartex", f.dir \o "/" \o f.name, "-b", "-v", "-s">>
                /\ Cardinality({k \in 1..Len(cmd) : cmd[k] = "--output"}) = 1
                /\ IF f.dir \in GitDirs
                   THEN SubSeq(cmd, 6, Len(cmd)) =
                            <<"--overwrite", "--git-rev", "--output", f.dir>>
                   ELSE /\ Len(cmd) = 7
                        /\ cmd[6] = "--output"
                        /\ \E t \in 0..MaxClock :
                               cmd[7] = f.dir \o "/" \o Stem(f.name) \o "_"
                                            \o strftime(t) \o ".tar.gz"

\* C5 witness: command lines were built in a git and in a non-git directory.
C5_Witness ==
    \E i, j \in Acts :
        /\ acts[i].cmd # <<>> /\ acts[i].file.dir \in GitDirs
        /\ acts[j].cmd # <<>> /\ acts[j].file.dir \notin GitDirs

\* C6: two distinct activations on the same file outside a git directory
\* get different output archive names.
C6_UniqueOutputNames ==
    \A i, j \in Acts :
        ( /\ i # j
          /\ acts[i].file = acts[j].file
          /\ acts[i].file.dir \notin GitDirs
          /\ acts[i].cmd # <<>> /\ acts[j].cmd # <<>> )
        => acts[i].cmd[7] # acts[j].cmd[7]

\* C7: a successful run that has nothing left to run has added to the
\* recent manager exactly the URI of the source file and the URI of the
\* archive tartex wrote in the file's directory.
C7_RecentFiles ==
    \A i \in Acts :
        LET a == acts[i]
        IN  (a.stage = "succeeded" /\ finished(i)) =>
                a.recent = <<"file://" \o a.file.dir \o "/" \o a.file.name,
                             "file://" \o a.file.dir \o "/" \o a.archive>>

\* C8: unmark_busy is never called more often than mark_busy, and once all
\* activations have finished no busy mark is outstanding.
C8_BusyBalanced ==
    /\ unmarks <= marks
    /\ (\A i \in Acts : finished(i)) => marks - unmarks = 0

\* C9: the "Open Log" button of the error dialog of a run that failed with
\* exit code 4 refers to tartex_compile_error.log in the directory of the
\* file that run was started on.
C9_LogPath ==
    \A i \in Acts :
        LET a == acts[i]
        IN  (a.dialog.state = "presented" /\ a.exit_code = 4) =>
                a.dialog.log_path = a.file.dir \o "/tartex_compile_error.log"

=============================================================================
